---- MODULE Spec2Model ----
(***************************************************************************)
(* The two scripts of 1DPeriodicFourierSeries as one state machine.        *)
(*                                                                         *)
(*   script = "time"    1DPeriodicDiscretizedQuantumTime.py                *)
(*                      (finite differences, several time samples,         *)
(*                      noiseless statevector backend)                     *)
(*   script = "single"  1DPeriodicSpectralNoisyQuantumSingle.py            *)
(*                      (spectral, one time, noisy backend)                *)
(*                                                                         *)
(* Numbers are kept exactly:                                               *)
(*   - entries of the spatial operator are polynomials in 1/dx,            *)
(*     <<a0, a1, a2>> standing for (a0 + a1/dx + a2/dx^2) / OpDen;         *)
(*   - points of the auxiliary axis are integer multiples of the axis step *)
(*     pi*wy/ny, and exp(n steps) is the n-th power of g = exp(pi*wy/ny);  *)
(*   - complex numbers are elements of Z[g, 1/g][zeta] over a positive     *)
(*     integer denominator, zeta a primitive root of unity of order        *)
(*     RingOrder (a power of two), zeta^Half = -1;                         *)
(*   - u_init_norm and the magnitudes |fv[i]| are irrational: they are     *)
(*     kept as symbols, an amplitude being  val * prod(symbol^rad).        *)
(* The rounding of IEEE doubles is not modelled: every property below is   *)
(* one of exact arithmetic.  The result of the backend for a non-trivial   *)
(* evolution is not computed: it is an opaque amplitude.                   *)
(***************************************************************************)
EXTENDS Integers, Sequences, FiniteSets, TLC

VARIABLES
    script,     \* which of the two scripts runs
    nq, nqy,    \* qubits of the physical and of the auxiliary register
    C, D, S,    \* PDE coefficients; S in units of 1/SDen
    wy,         \* width of the auxiliary axis, in units of pi
    shift, bzone, alpha,   \* profile parameters; shift, bzone in axis steps
    pc,         \* position in the script
    i, j,       \* loop indices: frequency component / axis point, time sample
    v_init, rule,          \* the profile, and the branch that set each point
    fv, kv,                \* forward transform and wavenumbers
    AC, AD, AS, A, H1, H2, \* finite-difference operator and its split
    M,                     \* generator of the circuit being built
    inflight,              \* jobs handed to the backend and not yet returned
    invoked,               \* every backend.run so far, in order
    states,                \* evolved states of the current time sample
    soln, solnFrom,        \* accumulator, and the states accumulated into it
    results, writes,       \* result columns, and how often each was written
    saved,                 \* the archive has been written
    failed                 \* a backend invocation has raised

vars == <<script, nq, nqy, C, D, S, wy, shift, bzone, alpha, pc, i, j,
          v_init, rule, fv, kv, AC, AD, AS, A, H1, H2, M, inflight, invoked,
          states, soln, solnFrom, results, writes, saved, failed>>

params == <<script, nq, nqy, C, D, S, wy, shift, bzone, alpha>>

----------------------------------------------------------------------------
(* Bounds of the model and constants of the scripts.                       *)

MaxNq == 2          \* nx = 2 .. 2^MaxNq
MaxNqy == 2         \* ny = 2 .. 2^MaxNqy
NumTimes == 2       \* time samples of the multi-time script (source: 11)

SDen == 5           \* S = -0.2 = -1/5
wx == 2
idx == 0

RECURSIVE Pow2(_)
Pow2(n) == IF n <= 0 THEN 1 ELSE 2 * Pow2(n - 1)

nx == Pow2(nq)
ny == Pow2(nqy)

\* time = np.linspace(0,1,num=NumTimes) resp. time = 0.3: the number of time
\* samples, and whether sample jj is t = 0
nt == IF script = "time" THEN NumTimes ELSE 1
TimeIsZero(jj) == script = "time" /\ jj = 0

Max(a, b) == IF a >= b THEN a ELSE b

----------------------------------------------------------------------------
(* Exact complex arithmetic: Z[zeta], zeta of order RingOrder.             *)

RingOrder == Max(Max(ny, (4 * nx) \div wx), 4)
Half == RingOrder \div 2

RECURSIVE SumFn(_, _)
SumFn(f, n) == IF n < 0 THEN 0 ELSE f[n] + SumFn(f, n - 1)

CycZero == [r \in 0..(Half - 1) |-> 0]
CycInt(n) == [r \in 0..(Half - 1) |-> IF r = 0 THEN n ELSE 0]
ZetaPow(p) ==
    LET q == p % RingOrder
    IN  [r \in 0..(Half - 1) |->
            IF q < Half THEN (IF r = q THEN 1 ELSE 0)
                        ELSE (IF r = q - Half THEN -1 ELSE 0)]
CycAdd(a, b) == [r \in 0..(Half - 1) |-> a[r] + b[r]]
CycSub(a, b) == [r \in 0..(Half - 1) |-> a[r] - b[r]]
CycScale(n, a) == [r \in 0..(Half - 1) |-> n * a[r]]
CycMul(a, b) ==
    [r \in 0..(Half - 1) |->
        SumFn([p \in 0..(Half - 1) |->
                  IF p <= r THEN a[p] * b[r - p]
                            ELSE -(a[p] * b[r - p + Half])], Half - 1)]
CycConj(a) == [r \in 0..(Half - 1) |-> IF r = 0 THEN a[0] ELSE -a[Half - r]]

(* Elements of Z[g, 1/g][zeta]: a function from the exponents of g that    *)
(* occur to their non-zero coefficients in Z[zeta].                        *)
LauNorm(f) == [e \in {d \in DOMAIN f : f[d] # CycZero} |-> f[e]]
LauZero == [e \in {} |-> CycZero]
LauGet(a, e) == IF e \in DOMAIN a THEN a[e] ELSE CycZero
LauCyc(c) == LauNorm([e \in {0} |-> c])
LauExp(n) == [e \in {n} |-> CycInt(1)]
LauAdd(a, b) ==
    LauNorm([e \in (DOMAIN a) \cup (DOMAIN b) |-> CycAdd(LauGet(a, e), LauGet(b, e))])
LauScale(n, a) == LauNorm([e \in DOMAIN a |-> CycScale(n, a[e])])
LauMulCyc(a, c) == LauNorm([e \in DOMAIN a |-> CycMul(a[e], c)])
LauShift(a, n) == [e \in {d + n : d \in DOMAIN a} |-> a[e - n]]
LauConj(a) == [e \in DOMAIN a |-> CycConj(a[e])]

(* Fractions num/den, den a positive integer.                              *)
Frac(n, d) == [num |-> n, den |-> d]
FZero == Frac(LauZero, 1)
FIsZero(a) == a.num = LauZero
FEq(a, b) == LauScale(b.den, a.num) = LauScale(a.den, b.num)
FAdd(a, b) ==
    IF a.den = b.den THEN Frac(LauAdd(a.num, b.num), a.den)
    ELSE Frac(LauAdd(LauScale(b.den, a.num), LauScale(a.den, b.num)), a.den * b.den)
FMulCyc(a, c, cden) == Frac(LauMulCyc(a.num, c), a.den * cden)
FShift(a, n) == Frac(LauShift(a.num, n), a.den)
FReal(a) == Frac(LauAdd(a.num, LauConj(a.num)), 2 * a.den)

----------------------------------------------------------------------------
(* Amplitudes: val * u_init_norm^rad[0] * prod |fv[s]|^rad[s+1].  "nan" is *)
(* what numpy gives for 0/0, "irr" a sum of unlike irrational terms, and   *)
(* "opaque" a value only the backend knows.                                *)

RadZero == [s \in 0..ny |-> 0]
RadSym(s, p) == [r \in 0..ny |-> IF r = s THEN p ELSE 0]
RadAdd(a, b) == [r \in 0..ny |-> a[r] + b[r]]
Amp(v, r) == [kind |-> "num", val |-> v, rad |-> IF FIsZero(v) THEN RadZero ELSE r]
NaN == [kind |-> "nan", val |-> FZero, rad |-> RadZero]
Irr == [kind |-> "irr", val |-> FZero, rad |-> RadZero]
Opaque == [kind |-> "opaque", val |-> FZero, rad |-> RadZero]
AmpZero == Amp(FZero, RadZero)
Worst(a, b) ==
    IF "nan" \in {a.kind, b.kind} THEN NaN
    ELSE IF "opaque" \in {a.kind, b.kind} THEN Opaque ELSE Irr
AmpAdd(a, b) ==
    IF a.kind # "num" \/ b.kind # "num" THEN Worst(a, b)
    ELSE IF FIsZero(a.val) THEN b
    ELSE IF FIsZero(b.val) THEN a
    ELSE IF a.rad = b.rad THEN Amp(FAdd(a.val, b.val), a.rad)
    ELSE Irr
\* a * c/cden, c in Z[zeta]
AmpMulCyc(a, c, cden) ==
    IF a.kind # "num" THEN a ELSE Amp(FMulCyc(a.val, c, cden), a.rad)
\* a * symbol^p; a symbol that is zero makes 0/0 when p < 0
AmpMulSym(a, s, p, symIsZero) ==
    IF a.kind # "num" THEN a
    ELSE IF symIsZero THEN (IF p < 0 THEN NaN ELSE AmpZero)
    ELSE Amp(a.val, RadAdd(a.rad, RadSym(s, p)))
\* a * exp(n axis steps)
AmpMulExp(a, n) == IF a.kind # "num" THEN a ELSE Amp(FShift(a.val, n), a.rad)
AmpReal(a) == IF a.kind # "num" THEN a ELSE Amp(FReal(a.val), a.rad)
\* a * b for b free of g (b a value on the physical grid)
AmpMul(a, b) ==
    IF a.kind # "num" \/ b.kind # "num" THEN Worst(a, b)
    ELSE Amp(FMulCyc(a.val, LauGet(b.val.num, 0), b.val.den), RadAdd(a.rad, b.rad))
AmpEq(a, b) ==
    /\ a.kind = "num"
    /\ b.kind = "num"
    /\ a.rad = b.rad
    /\ FEq(a.val, b.val)

----------------------------------------------------------------------------
(* Initial field: lines 43-56 (time), 56-68 (single).                      *)

k_s == <<1, 3>>
k_c == <<2>>

\* k*x[xi] as an exponent of zeta: x = -L/2 + xi*L/nx, L = wx*pi
AngleExp(k, xi) == (k * wx * (2 * xi - nx) * RingOrder) \div (4 * nx)
\* 2*sin and 2*cos of the angle zeta^a
Sin2(a) == CycSub(ZetaPow((RingOrder \div 4) - a), ZetaPow((RingOrder \div 4) + a))
Cos2(a) == CycAdd(ZetaPow(a), ZetaPow(-a))

RECURSIVE Harmonics(_, _, _, _)
Harmonics(ks, n, xi, isSin) ==
    IF n = 0 THEN CycZero
    ELSE CycAdd(Harmonics(ks, n - 1, xi, isSin),
                IF isSin THEN Sin2(AngleExp(ks[n], xi)) ELSE Cos2(AngleExp(ks[n], xi)))

\* 2 * u_init[xi]
u_init2(xi) == CycAdd(Harmonics(k_s, Len(k_s), xi, TRUE), Harmonics(k_c, Len(k_c), xi, FALSE))
u_init(xi) == Amp(Frac(LauCyc(u_init2(xi)), 2), RadZero)
NormIsZero == \A xi \in 0..(nx - 1) : u_init2(xi) = CycZero
\* u0 = u_init / u_init_norm
u0(xi) == AmpMulSym(u_init(xi), 0, -1, NormIsZero)

----------------------------------------------------------------------------
(* Auxiliary axis and profile, in axis steps pi*wy/ny.                     *)

\* y = np.linspace(-pi*(wy/2+shift), pi*(wy/2-shift), num=ny, endpoint=False)
y(jj) == jj - (ny \div 2 + shift)
\* bottom = np.exp(-np.pi*(wy/2-shift)), as an exponent
bottom == -(ny \div 2 - shift)

PZero == [zero |-> TRUE, ex |-> 0]
PExp(n) == [zero |-> FALSE, ex |-> n]

\* the loop body without the floor at bottom
ProfilePointTimeNoFloor(vy) ==
    IF vy < -(ny \div 2 + shift - bzone) \/ vy > (ny \div 2 - shift - bzone)
    THEN [rule |-> 1, value |-> PZero]
    ELSE IF vy < -shift
    THEN [rule |-> 2, value |-> PExp(alpha * vy + shift * (alpha + 1))]
    ELSE [rule |-> 3, value |-> PExp(-vy)]

\* the profile loop body of the multi-time script
ProfilePointTime(vy) ==
    IF vy < -(ny \div 2 + shift - bzone) \/ vy > (ny \div 2 - shift - bzone)
    THEN [rule |-> 1, value |-> PZero]
    ELSE IF vy < -shift
    THEN LET tmp == alpha * vy + shift * (alpha + 1)
         IN  [rule |-> 2, value |-> PExp(IF tmp < bottom THEN bottom ELSE tmp)]
    ELSE [rule |-> 3, value |-> PExp(-vy)]

\* the profile loop body of the single-time script
ProfilePointSingle(vy) ==
    IF vy < -(ny \div 2 + shift - bzone) \/ vy > (ny \div 2 - shift - bzone)
    THEN [rule |-> 1, value |-> PZero]
    ELSE IF vy < -shift
    THEN LET tmp == alpha * vy + shift * (alpha + 1)
         IN  [rule |-> 2, value |-> PExp(IF tmp < bottom THEN bottom ELSE tmp)]
    ELSE [rule |-> 3, value |-> PExp(-vy)]

ProfilePoint(vy) ==
    IF script = "time" THEN ProfilePointTime(vy) ELSE ProfilePointSingle(vy)

----------------------------------------------------------------------------
(* Forward transform and wavenumbers.                                      *)

ProfileLau(p) == IF p.zero THEN LauZero ELSE LauExp(p.ex)

\* sum over n' <= n of v[n'] * exp(-2 pi i k n' / ny)
RECURSIVE FftSum(_, _, _)
FftSum(v, k, n) ==
    IF n < 0 THEN LauZero
    ELSE LauAdd(FftSum(v, k, n - 1),
                LauMulCyc(ProfileLau(v[n]), ZetaPow(-(k * n) * (RingOrder \div ny))))

\* fft.fft(v, norm='forward')
fft(v) == [k \in 0..(ny - 1) |-> Frac(FftSum(v, k, ny - 1), ny)]

\* fft.fftfreq(n): [0, 1, ..., (n-1)//2, -(n//2), ..., -1] / n
fftfreq(n) ==
    LET N == (n - 1) \div 2 + 1
    IN  [k \in 0..(n - 1) |->
            [num |-> IF k < N THEN k ELSE -(n \div 2) + (k - N), den |-> n]]

\* fft.fftfreq(ny)*2/wy: the factor ny left out
WavenumbersUnscaled ==
    [k \in 0..(ny - 1) |->
        [num |-> fftfreq(ny)[k].num * 2, den |-> fftfreq(ny)[k].den * wy]]

\* kv = fft.fftfreq(ny)*ny*2/wy
Wavenumbers ==
    [k \in 0..(ny - 1) |->
        [num |-> fftfreq(ny)[k].num * ny * 2, den |-> fftfreq(ny)[k].den * wy]]

----------------------------------------------------------------------------
(* Finite-difference operator: lines 93-125 of the multi-time script.      *)
(* An entry <<a0, a1, a2>> is (a0 + a1/dx + a2/dx^2) / OpDen.              *)

OpDen == 4 * SDen * wy
OpZero == <<0, 0, 0>>
OpAdd(a, b) == [c \in 1..3 |-> a[c] + b[c]]
OpSub(a, b) == [c \in 1..3 |-> a[c] - b[c]]
OpNeg(a) == [c \in 1..3 |-> -a[c]]
OpScale(n, a) == [c \in 1..3 |-> n * a[c]]
OpHalf(a) == [c \in 1..3 |-> a[c] \div 2]
\* k * a for a rational k
OpMulRat(k, a) == [c \in 1..3 |-> (k.num * a[c]) \div k.den]

Rows == 0..(nx - 1)
\* a[r, c] = v with numpy's negative indices
Ix(n) == IF n < 0 THEN nx + n ELSE n
Put(m, r, c, v) == [m EXCEPT ![Ix(r)][Ix(c)] = v]

\* for i in range(nx-1): m[i,i+1] = up; m[i+1,i] = lo
RECURSIVE BandLoop(_, _, _, _)
BandLoop(m, n, up, lo) ==
    IF n >= nx - 1 THEN m
    ELSE BandLoop(Put(Put(m, n, n + 1, up), n + 1, n, lo), n + 1, up, lo)

\* np.zeros((nx, nx)) and 2*np.eye(nx)
Zeros == [r \in Rows |-> [c \in Rows |-> 0]]
TwoEye == [r \in Rows |-> [c \in Rows |-> IF r = c THEN 2 ELSE 0]]

\* C / dx: the factor 2 of the central difference left out
ConvectionScaleNoHalf == <<0, C * OpDen, 0>>

\* lines 93-99
ConvectionStencil == Put(Put(BandLoop(Zeros, 0, 1, -1), 0, -1, -1), -1, 0, 1)
\* C / (2*dx)
ConvectionScale == <<0, (C * OpDen) \div 2, 0>>
\* lines 93-101
Convection ==
    [r \in Rows |-> [c \in Rows |-> OpScale(ConvectionStencil[r][c], ConvectionScale)]]

\* the diffusion stencil with AD[-1,0] = -1 left out
DiffusionStencilOneWrap == Put(BandLoop(TwoEye, 0, -1, -1), 0, -1, -1)

\* lines 105-110
DiffusionStencil == Put(Put(BandLoop(TwoEye, 0, -1, -1), 0, -1, -1), -1, 0, -1)
\* D / np.square(dx)
DiffusionScale == <<0, 0, D * OpDen>>
\* lines 105-112
Diffusion ==
    [r \in Rows |-> [c \in Rows |-> OpScale(DiffusionStencil[r][c], DiffusionScale)]]

\* AS = -S*np.eye(nx), S in units of 1/SDen
ReactionScale == <<-(S * (OpDen \div SDen)), 0, 0>>
Reaction ==
    [r \in Rows |-> [c \in Rows |-> IF r = c THEN ReactionScale ELSE OpZero]]

MatAdd(a, b) == [r \in Rows |-> [c \in Rows |-> OpAdd(a[r][c], b[r][c])]]
MatSub(a, b) == [r \in Rows |-> [c \in Rows |-> OpSub(a[r][c], b[r][c])]]
MatHalf(a) == [r \in Rows |-> [c \in Rows |-> OpHalf(a[r][c])]]
\* A.H of a real matrix
ConjTranspose(a) == [r \in Rows |-> [c \in Rows |-> a[c][r]]]

\* (A+A)/2: the conjugate transpose left out
HermitianPartNoAdjoint(a) == MatHalf(MatAdd(a, a))

\* H1 = (A+AH)/2, H2 = (A-AH)/2
HermitianPart(a) == MatHalf(MatAdd(a, ConjTranspose(a)))
AntiHermitianPart(a) == MatHalf(MatSub(a, ConjTranspose(a)))

\* k*H1 - H2: the imaginary unit left out
GeneratorNoUnit(k) ==
    [r \in Rows |-> [c \in Rows |->
        [re |-> OpSub(OpMulRat(k, H1[r][c]), H2[r][c]), im |-> OpZero]]]

\* M = 1.j*k*H1 - H2, as real and imaginary part
Generator(k) ==
    [r \in Rows |-> [c \in Rows |->
        [re |-> OpNeg(H2[r][c]), im |-> OpMulRat(k, H1[r][c])]]]

----------------------------------------------------------------------------
(* Circuit of one frequency component, and recombination.                  *)

\* fv[ii]/np.abs(fv[ii])
Phase(ii) == AmpMulSym(Amp(fv[ii], RadZero), ii + 1, -1, FIsZero(fv[ii]))
\* u0*fv[ii]/np.abs(fv[ii])
PreparedState(ii) == [xi \in Rows |-> AmpMul(Phase(ii), u0(xi))]

\* What the backend returns for a job.  U = expm(M*0) is the identity and the
\* statevector backend of the multi-time script is noiseless; every other
\* result is known to the backend only.
Evolve(job) == IF job.exact THEN job.init ELSE [xi \in Rows |-> Opaque]

\* np.exp(1.j*np.pi*k*wy/2*2*(ny/2+idx)/ny) as a power of zeta; the angle is a
\* multiple of 2*pi/RingOrder for every wavenumber the scripts produce
RecombinationPhase(k) ==
    ZetaPow((k.num * wy * 2 * (ny \div 2 + idx) * RingOrder) \div (k.den * 2 * ny * 2))

\* states[ii].data * np.exp(...): the magnitude left out
TermNoAbs(st, ii, xi) == AmpMulCyc(st[ii + 1].data[xi], RecombinationPhase(kv[ii]), 1)

\* states[ii].data * np.abs(fv[ii]) * np.exp(...)
Term(st, ii, xi) ==
    AmpMulCyc(AmpMulSym(st[ii + 1].data[xi], ii + 1, 1, FIsZero(fv[ii])),
              RecombinationPhase(kv[ii]), 1)

\* soln *= u_init_norm; soln *= np.exp(y[int(ny/2+idx)])
Rescaled(sol) ==
    [xi \in Rows |-> AmpMulExp(AmpMulSym(sol[xi], 0, 1, NormIsZero), y(ny \div 2 + idx))]

RealPart(sol) == [xi \in Rows |-> AmpReal(sol[xi])]

----------------------------------------------------------------------------
(* Parameters the model runs the scripts with.  The scripts fix them at    *)
(* C = 4, D = 1, S = -0.2, wy = 8, shift = 0, alpha = 10, bzone = 0.       *)

CSet == {0, 4}
DSet == {0, 1}
SSet == {-1, 0, 1}
WySet == {2, 8}
ShiftSet == {0, 1}
AlphaSet == {2, 10}

\* the finite-difference operator over grids and coefficient sets
OperatorSweep ==
    /\ script = "time"
    /\ nq \in 1..MaxNq
    /\ C \in CSet /\ D \in DSet /\ S \in SSet
    /\ nqy = 1 /\ wy = 8 /\ shift = 0 /\ alpha = 10 /\ bzone = 0

\* the auxiliary axis over lengths, widths and profile parameters; the buffer
\* zone leaves the midpoint of the axis inside the window
ProfileSweep ==
    /\ script \in {"time", "single"}
    /\ nq = 1
    /\ C = 4 /\ D = 1 /\ S = -1
    /\ nqy \in 1..MaxNqy
    /\ wy \in WySet /\ shift \in ShiftSet /\ alpha \in AlphaSet
    /\ bzone \in 0..(ny \div 2)

Unset == << >>

Init ==
    /\ OperatorSweep \/ ProfileSweep
    /\ pc = "profile"
    /\ i = 0
    /\ j = 0
    /\ v_init = [jj \in 0..(ny - 1) |-> PZero]
    /\ rule = [jj \in 0..(ny - 1) |-> 0]
    /\ fv = Unset /\ kv = Unset
    /\ AC = Unset /\ AD = Unset /\ AS = Unset /\ A = Unset
    /\ H1 = Unset /\ H2 = Unset /\ M = Unset
    /\ inflight = {}
    /\ invoked = << >>
    /\ states = << >>
    /\ soln = Unset /\ solnFrom = {}
    /\ results = [jj \in 0..(nt - 1) |-> [xi \in Rows |-> AmpZero]]
    /\ writes = [jj \in 0..(nt - 1) |-> [n |-> 0, from |-> {}]]
    /\ saved = FALSE
    /\ failed = FALSE

----------------------------------------------------------------------------
(* The steps of the scripts.                                               *)

operator == <<AC, AD, AS, A, H1, H2>>
transform == <<v_init, rule, fv, kv>>
oracle == <<M, inflight, invoked, states, failed>>
output == <<soln, solnFrom, results, writes, saved>>

\* for i, vy in enumerate(y): one point of the profile
ProfileStep ==
    /\ pc = "profile"
    /\ i < ny
    /\ v_init' = [v_init EXCEPT ![i] = ProfilePoint(y(i)).value]
    /\ rule' = [rule EXCEPT ![i] = ProfilePoint(y(i)).rule]
    /\ i' = i + 1
    /\ pc' = IF i + 1 = ny THEN "transform" ELSE "profile"
    /\ UNCHANGED <<params, j, fv, kv, operator, oracle, output>>

\* fv = fft.fft(v_init, norm='forward'); kv = fft.fftfreq(ny)*ny*2/wy
Transform ==
    /\ pc = "transform"
    /\ fv' = fft(v_init)
    /\ kv' = Wavenumbers
    /\ pc' = IF script = "time" THEN "convection" ELSE "qft"
    /\ UNCHANGED <<params, i, j, v_init, rule, operator, oracle, output>>

BuildConvection ==
    /\ pc = "convection"
    /\ AC' = Convection
    /\ pc' = "diffusion"
    /\ UNCHANGED <<params, i, j, transform, AD, AS, A, H1, H2, oracle, output>>

BuildDiffusion ==
    /\ pc = "diffusion"
    /\ AD' = Diffusion
    /\ pc' = "reaction"
    /\ UNCHANGED <<params, i, j, transform, AC, AS, A, H1, H2, oracle, output>>

\* AS = -S*np.eye(nx); A = AC + AD + AS
BuildOperator ==
    /\ pc = "reaction"
    /\ AS' = Reaction
    /\ A' = MatAdd(MatAdd(AC, AD), Reaction)
    /\ pc' = "split"
    /\ UNCHANGED <<params, i, j, transform, AC, AD, H1, H2, oracle, output>>

Split ==
    /\ pc = "split"
    /\ H1' = HermitianPart(A)
    /\ H2' = AntiHermitianPart(A)
    /\ j' = 0
    /\ pc' = "time_loop"
    /\ UNCHANGED <<params, i, transform, AC, AD, AS, A, oracle, output>>

\* single-time script, lines 101-108: QFT circuits, kx, states = []
SetupSpectral ==
    /\ pc = "qft"
    /\ states' = << >>
    /\ i' = 0
    /\ j' = 0
    /\ pc' = "freq_loop"
    /\ UNCHANGED <<params, transform, operator, M, inflight, invoked, failed, output>>

\* states = [] moved out of the time loop
BeginTimeSampleKeepStates ==
    /\ pc = "time_loop"
    /\ j < nt
    /\ i' = 0
    /\ pc' = "freq_loop"
    /\ UNCHANGED <<params, j, transform, operator, oracle, output>>

\* for j, t in enumerate(time): states = []
BeginTimeSample ==
    /\ pc = "time_loop"
    /\ j < nt
    /\ states' = << >>
    /\ i' = 0
    /\ pc' = "freq_loop"
    /\ UNCHANGED <<params, j, transform, operator, M, inflight, invoked, failed, output>>

EndTimeLoop ==
    /\ pc = "time_loop"
    /\ j = nt
    /\ pc' = "plot"
    /\ UNCHANGED <<params, i, j, transform, operator, oracle, output>>

\* backend.run(...) without waiting for the result
InvokeNoWait ==
    /\ pc = "freq_loop"
    /\ i < ny
    /\ inflight' = inflight \cup
          {[comp |-> i, tsample |-> j, init |-> PreparedState(i), exact |-> TimeIsZero(j)]}
    /\ invoked' = Append(invoked, <<j, i>>)
    /\ i' = i + 1
    /\ UNCHANGED <<params, pc, j, transform, operator, M, states, failed, output>>

\* the circuit of component i, up to backend.run(...)
Invoke ==
    /\ pc = "freq_loop"
    /\ i < ny
    /\ M' = IF script = "time" THEN Generator(kv[i]) ELSE M
    /\ inflight' = inflight \cup
          {[comp |-> i, tsample |-> j, init |-> PreparedState(i), exact |-> TimeIsZero(j)]}
    /\ invoked' = Append(invoked, <<j, i>>)
    /\ pc' = "await"
    /\ UNCHANGED <<params, i, j, transform, operator, states, failed, output>>

\* state = job.result().get_statevector(qc); states.append(state)
OracleReturn ==
    /\ pc = "await"
    /\ \E job \in inflight :
          /\ states' = Append(states,
                [comp |-> job.comp, tsample |-> job.tsample, data |-> Evolve(job)])
          /\ inflight' = inflight \ {job}
    /\ i' = i + 1
    /\ pc' = "freq_loop"
    /\ UNCHANGED <<params, j, transform, operator, M, invoked, failed, output>>

\* the exception caught and the component run again
OracleFailRetry ==
    /\ pc = "await"
    /\ inflight' = {}
    /\ failed' = TRUE
    /\ pc' = "freq_loop"
    /\ UNCHANGED <<params, i, j, transform, operator, M, invoked, states, output>>

\* the backend raises: nothing catches it
OracleFail ==
    /\ pc = "await"
    /\ inflight' = {}
    /\ failed' = TRUE
    /\ pc' = "failed"
    /\ UNCHANGED <<params, i, j, transform, operator, M, invoked, states, output>>

\* idx = 0; soln = np.zeros(nx, dtype='complex128')
BeginRecombine ==
    /\ pc = "freq_loop"
    /\ i = ny
    /\ soln' = [xi \in Rows |-> AmpZero]
    /\ solnFrom' = {}
    /\ i' = 0
    /\ pc' = "recombine"
    /\ UNCHANGED <<params, j, transform, operator, oracle, results, writes, saved>>

\* soln += states[i].data * np.abs(fv[i]) * np.exp(...)
Accumulate ==
    /\ pc = "recombine"
    /\ i < ny
    /\ soln' = [xi \in Rows |-> AmpAdd(soln[xi], Term(states, i, xi))]
    /\ solnFrom' = solnFrom \cup {<<states[i + 1].comp, states[i + 1].tsample>>}
    /\ i' = i + 1
    /\ UNCHANGED <<params, pc, j, transform, operator, oracle, results, writes, saved>>

\* soln *= u_init_norm; soln *= np.exp(y[...]); results[:,j] = soln.real
Rescale ==
    /\ pc = "recombine"
    /\ i = ny
    /\ soln' = Rescaled(soln)
    /\ IF script = "time"
       THEN /\ results' = [results EXCEPT ![j] = RealPart(Rescaled(soln))]
            /\ writes' = [writes EXCEPT ![j] = [n |-> @.n + 1, from |-> solnFrom]]
            /\ j' = j + 1
            /\ pc' = "time_loop"
       ELSE /\ UNCHANGED <<results, writes, j>>
            /\ pc' = "plot"
    /\ UNCHANGED <<params, i, transform, operator, oracle, solnFrom, saved>>

\* the figure
Plot ==
    /\ pc = "plot"
    /\ pc' = "save"
    /\ UNCHANGED <<params, i, j, transform, operator, oracle, output>>

\* np.savez(..., y = results) resp. y = soln.real
Save ==
    /\ pc = "save"
    /\ saved' = TRUE
    /\ IF script = "time"
       THEN UNCHANGED <<results, writes>>
       ELSE /\ results' = [results EXCEPT ![0] = RealPart(soln)]
            /\ writes' = [writes EXCEPT ![0] = [n |-> @.n + 1, from |-> solnFrom]]
    /\ pc' = "done"
    /\ UNCHANGED <<params, i, j, transform, operator, oracle, soln, solnFrom>>

Next ==
    \/ ProfileStep
    \/ Transform
    \/ BuildConvection
    \/ BuildDiffusion
    \/ BuildOperator
    \/ Split
    \/ SetupSpectral
    \/ BeginTimeSample
    \/ EndTimeLoop
    \/ Invoke
    \/ OracleReturn
    \/ OracleFail
    \/ BeginRecombine
    \/ Accumulate
    \/ Rescale
    \/ Plot
    \/ Save

Spec == Init /\ [][Next]_vars

----------------------------------------------------------------------------
(* Properties.                                                             *)

\* positions after H1, H2 exist, and after fv, kv exist
SplitDone ==
    /\ script = "time"
    /\ pc \in {"time_loop", "freq_loop", "await", "recombine", "plot", "save",
               "done", "failed"}
TransformDone == pc \notin {"profile", "transform"}

Symmetric(m) == \A r \in Rows : \A c \in Rows : m[c][r] = m[r][c]
Antisymmetric(m) == \A r \in Rows : \A c \in Rows : m[c][r] = OpNeg(m[r][c])

PeriodicCentralDifference(r, c) ==
    (IF c = (r + 1) % nx THEN 1 ELSE 0) - (IF c = (r + nx - 1) % nx THEN 1 ELSE 0)
PeriodicSecondDifference(r, c) ==
    (IF c = r THEN 2 ELSE 0) - (IF c = (r + 1) % nx THEN 1 ELSE 0)
        - (IF c = (r + nx - 1) % nx THEN 1 ELSE 0)
\* C/(2*dx), D/dx^2 and the real number s/SDen in the units of the operator
HalfCOverDx == <<0, 2 * SDen * wy * C, 0>>
DOverDxSquared == <<0, 0, 4 * SDen * wy * D>>
RealOfS(s) == <<4 * wy * s, 0, 0>>
SumOfTerms(r, c, reaction) ==
    OpAdd(OpAdd(OpScale(PeriodicCentralDifference(r, c), HalfCOverDx),
                OpScale(PeriodicSecondDifference(r, c), DOverDxSquared)),
          IF r = c THEN reaction ELSE OpZero)

(* C2, as stated: for nx >= 4, A is Conv + Diff + Reaction entry for entry *)
(* with Conv the periodic central difference times C/(2 dx), Diff the      *)
(* periodic second difference times D/dx^2, and Reaction = S*I.            *)
C2_ReactionPlusS ==
    (SplitDone /\ nx >= 4) =>
        \A r \in Rows : \A c \in Rows : A[r][c] = SumOfTerms(r, c, RealOfS(S))

(* C2, amended: the same with Reaction = -S*I, so that every diagonal      *)
(* entry of A is the diagonal entry of Diff minus S.                       *)
C2_ReactionMinusS ==
    (SplitDone /\ nx >= 4) =>
        /\ \A r \in Rows : \A c \in Rows : A[r][c] = SumOfTerms(r, c, RealOfS(-S))
        /\ \A r \in Rows : A[r][r] = OpSub(AD[r][r], RealOfS(S))

C2_Witness ==
    /\ SplitDone
    /\ nx >= 4 /\ C = 4 /\ D = 1 /\ S = -1

(* C3: on the noiseless backend, column 0 of the result (t = 0) equals     *)
(* u_init at every grid point.                                             *)
C3_IdentityAtTimeZero ==
    (script = "time" /\ writes[0].n > 0) =>
        \A xi \in Rows : AmpEq(results[0][xi], u_init(xi))

C3_Witness ==
    /\ script = "time"
    /\ writes[0].n > 0
    /\ ny = 4 /\ shift = 1 /\ bzone = 1 /\ alpha = 2
    /\ \E xi \in Rows : ~FIsZero(results[0][xi].val)

\* the signed FFT bin of component ii
SignedBin(ii) == IF 2 * ii < ny THEN ii ELSE ii - ny
\* sum over ii' <= ii of fv[ii'] times the recombination factor
RECURSIVE InverseSum(_)
InverseSum(ii) ==
    IF ii < 0 THEN Frac(LauZero, ny)
    ELSE FAdd(InverseSum(ii - 1), FMulCyc(fv[ii], RecombinationPhase(kv[ii]), 1))

(* C4: k_i = m_i*2/wy with m_i the signed FFT bin; the recombination       *)
(* factor of component i is exp(2 pi i m_i j/ny) at j = ny/2 + idx; and    *)
(* the sum of fv[i] times that factor over all i is v_init[j].             *)
C4_RoundTrip ==
    TransformDone =>
        /\ \A ii \in 0..(ny - 1) :
              /\ kv[ii].num * wy = SignedBin(ii) * 2 * kv[ii].den
              /\ RecombinationPhase(kv[ii]) =
                    ZetaPow(SignedBin(ii) * (ny \div 2 + idx) * (RingOrder \div ny))
        /\ FEq(InverseSum(ny - 1), Frac(ProfileLau(v_init[ny \div 2 + idx]), 1))

C4_Witness ==
    /\ TransformDone
    /\ ny = 4 /\ wy = 2
    /\ \E ii \in 0..(ny - 1) : kv[ii].num < 0
    /\ ~v_init[ny \div 2 + idx].zero

\* The rules of the claim C5, in their order
OutsideWindow(vy) ==
    \/ vy < -(ny \div 2 + shift - bzone)
    \/ vy > ny \div 2 - shift - bzone
RuleOf(vy) == IF OutsideWindow(vy) THEN 1 ELSE IF vy < -shift THEN 2 ELSE 3
ValueOf(vy) ==
    CASE RuleOf(vy) = 1 -> PZero
      [] RuleOf(vy) = 2 -> PExp(Max(alpha * vy + shift * (alpha + 1), bottom))
      [] RuleOf(vy) = 3 -> PExp(-vy)

(* C5: every axis point gets its value from the first rule that applies:   *)
(* (1) outside the window 0, (2) below -pi*shift the growth exponential,   *)
(* never below bottom, (3) exp(-vy); and both scripts give the same point  *)
(* the same rule and value.                                                *)
C5_ProfileRules ==
    \A jj \in 0..(ny - 1) :
        /\ (pc # "profile" \/ jj < i) =>
              /\ rule[jj] = RuleOf(y(jj))
              /\ v_init[jj] = ValueOf(y(jj))
              /\ rule[jj] = 2 => (~v_init[jj].zero /\ v_init[jj].ex >= bottom)
        /\ ProfilePointTime(y(jj)) = ProfilePointSingle(y(jj))

C5_Witness ==
    /\ pc = "transform"
    /\ \E jj \in 0..(ny - 1) : rule[jj] = 1
    /\ \E jj \in 0..(ny - 1) :
          /\ rule[jj] = 2
          /\ v_init[jj].ex = bottom
          /\ alpha * y(jj) + shift * (alpha + 1) < bottom
    /\ \E jj \in 0..(ny - 1) : rule[jj] = 3

(* C6: at most one invocation is in flight and the script waits for it;    *)
(* invocations come in the order of time samples and, within one, of       *)
(* components; recombination of a time sample runs only when all ny        *)
(* invocations of it have returned; a finished run made nt*ny of them.     *)
C6_Sequential ==
    /\ Cardinality(inflight) <= 1
    /\ inflight # {} => pc = "await"
    /\ \A n \in 1..Len(invoked) : invoked[n] = <<(n - 1) \div ny, (n - 1) % ny>>
    /\ pc = "recombine" =>
          /\ inflight = {}
          /\ Len(states) = ny
          /\ Len(invoked) = (j + 1) * ny
    /\ pc = "done" => Len(invoked) = nt * ny

C6_Witness ==
    /\ pc = "done"
    /\ script = "time"
    /\ ny = 4
    /\ Len(invoked) = NumTimes * 4

(* C7: once an invocation has failed the run is over: no further step is   *)
(* taken (no retry, no later component or time sample), nothing was        *)
(* recombined from the states of the failed time sample, and no archive is *)
(* written.                                                                *)
C7_FailFast ==
    /\ [](failed =>
            /\ pc = "failed"
            /\ ~saved
            /\ writes[j].n = 0
            /\ \A t \in solnFrom : t[2] # j)
    /\ [][failed => UNCHANGED vars]_vars

C7_Witness ==
    /\ failed
    /\ script = "time"
    /\ j = 1
    /\ Len(states) > 0
    /\ writes[0].n = 1

(* C8: in the multi-time script, when recombination of sample j runs the   *)
(* list of states has ny entries, entry i evolved for component i at time  *)
(* sample j; column j is written once, from those states, and no later     *)
(* step changes it.                                                        *)
C8_NoCarryOver ==
    /\ [](script = "time" =>
            /\ pc = "recombine" =>
                  /\ Len(states) = ny
                  /\ \A n \in 1..Len(states) :
                        states[n].comp = n - 1 /\ states[n].tsample = j
            /\ \A jj \in 0..(nt - 1) :
                  /\ writes[jj].n <= 1
                  /\ writes[jj].n = 1 =>
                        writes[jj].from = {<<c, jj>> : c \in 0..(ny - 1)}
            /\ pc = "done" => \A jj \in 0..(nt - 1) : writes[jj].n = 1)
    /\ [][script = "time" =>
            \A jj \in 0..(nt - 1) :
                writes[jj].n = 1 => results'[jj] = results[jj]]_vars

C8_Witness ==
    /\ script = "time"
    /\ pc = "recombine"
    /\ j = 1
    /\ i = ny
    /\ writes[0].n = 1

(* C9: the convection matrix with its wraparound entries is antisymmetric  *)
(* and the diffusion matrix with its wraparound entries symmetric, for     *)
(* every grid of at least 2 points; H2 is the convection matrix and H1 the *)
(* diffusion matrix plus the reaction matrix.                              *)
C9_SplitSeparatesTerms ==
    SplitDone =>
        /\ Antisymmetric(AC)
        /\ Symmetric(AD)
        /\ H2 = AC
        /\ H1 = MatAdd(AD, AS)

C9_Witness ==
    /\ SplitDone
    /\ nx = 2 /\ C = 4 /\ D = 1 /\ S = 1
    /\ AC[0][1] # OpZero

(* C10: the generator M = i*k*H1 - H2 of every component is                *)
(* anti-Hermitian: the conjugate of M[c][r] is -M[r][c].                   *)
C10_GeneratorAntiHermitian ==
    (script = "time" /\ Len(invoked) > 0) =>
        \A r \in Rows : \A c \in Rows :
            /\ M[c][r].re = OpNeg(M[r][c].re)
            /\ OpNeg(M[c][r].im) = OpNeg(M[r][c].im)

C10_Witness ==
    /\ script = "time"
    /\ pc = "await"
    /\ kv[i].num < 0
    /\ nx = 4 /\ C = 4 /\ D = 1
    /\ \E r \in Rows : M[r][r].im # OpZero

====
